---- MODULE Spec2Model ----
(***************************************************************************)
(* Model of file_system_analyzer (src/main.py): DirectoryAnalyzer builds a *)
(* tree of File/Directory nodes from os.scandir, analyze() lets each       *)
(* FileVisitor walk the tree, main() logs the results.                     *)
(*                                                                         *)
(* Strings are sequences of one-character strings, a path is the sequence  *)
(* of its components (os.path.join appends a component).  A probe of the   *)
(* operating system returns [ok, val]; ok = FALSE is a raised OSError.     *)
(***************************************************************************)
EXTENDS Integers, Sequences, FiniteSets, TLC

VARIABLES
    disk,        \* the directory tree on disk (never modified by the program)
    pc,          \* position of main(): start, building, built, walking, done, exit1, crashed
    run,         \* 1 for the first execution of main(), 2 for the second
    exc,         \* the exception that left the program, "none" if none
    contents,    \* Directory.contents of every Directory node, by path
    buildStack,  \* live frames of _build_directory_structure, innermost first
    sizeV,       \* the FileSizeVisitor
    permV,       \* the PermissionVisitor
    catV,        \* the FileCategoryVisitor
    vi,          \* position of the `for visitor in visitors` loop of analyze
    stack,       \* pending accept calls of the running walk, next first
    results,     \* the results dict of analyze
    calls,       \* log of the visit_* calls made in this run
    prev,        \* results of the first execution of main()
    classified   \* visit_file calls of a visitor taken alone whose type guess did not raise

vars == <<disk, pc, run, exc, contents, buildStack, sizeV, permV, catV, vi,
          stack, results, calls, prev, classified>>

-----------------------------------------------------------------------------
(* Bounds of the model *)

\* entries (files, directories, others) below the root directory
MaxEntries == 3
\* visit_file calls made on one FileCategoryVisitor taken alone
MaxCalls == 3

-----------------------------------------------------------------------------
(* Strings *)

text        == <<"t","e","x","t">>
image       == <<"i","m","a","g","e">>
video       == <<"v","i","d","e","o">>
application == <<"a","p","p","l","i","c","a","t","i","o","n">>
executable  == <<"e","x","e","c","u","t","a","b","l","e">>
audio       == <<"a","u","d","i","o">>

Text       == <<"T","e","x","t">>
Image      == <<"I","m","a","g","e">>
Video      == <<"V","i","d","e","o">>
Executable == <<"E","x","e","c","u","t","a","b","l","e">>
Other      == <<"O","t","h","e","r">>
Unknown    == <<"U","n","k","n","o","w","n">>

LowerCase == <<"a","b","c","d","e","t","x">>
UpperCase == <<"A","B","C","D","E","T","X">>

\* str.upper / str.lower on one character
upper(c) ==
    IF \E i \in 1..Len(LowerCase) : LowerCase[i] = c
    THEN UpperCase[CHOOSE i \in 1..Len(LowerCase) : LowerCase[i] = c]
    ELSE c

lower(c) ==
    IF \E i \in 1..Len(UpperCase) : UpperCase[i] = c
    THEN LowerCase[CHOOSE i \in 1..Len(UpperCase) : UpperCase[i] = c]
    ELSE c

\* str.capitalize: first character upper case, the rest lower case
capitalize(s) ==
    [i \in 1..Len(s) |-> IF i = 1 THEN upper(s[i]) ELSE lower(s[i])]

\* str.startswith
startswith(s, p) ==
    /\ Len(s) >= Len(p)
    /\ SubSeq(s, 1, Len(p)) = p

\* the `in` operator on strings
contains(s, p) ==
    \E i \in 1..(Len(s) + 1) :
        /\ i + Len(p) - 1 <= Len(s)
        /\ SubSeq(s, i, i + Len(p) - 1) = p

\* str.rfind of one character, 0 when absent
rfind(s, c) ==
    IF \E i \in 1..Len(s) : s[i] = c
    THEN CHOOSE i \in 1..Len(s) : s[i] = c /\ \A j \in (i+1)..Len(s) : s[j] # c
    ELSE 0

\* the extension os.path.splitext returns for a path: what follows the last
\* dot of the last component, unless only dots precede it
splitext_ext(path) ==
    LET name == path[Len(path)]
        dotIndex == rfind(name, ".")
    IN  IF dotIndex > 0 /\ \E k \in 1..(dotIndex - 1) : name[k] # "."
        THEN SubSeq(name, dotIndex, Len(name))
        ELSE <<>>

-----------------------------------------------------------------------------
(* The operating system: the disk and the probes *)

S_IWOTH == 2

LargeFileThreshold == 50000000

RootPath == << <<"r">> >>

Names == { <<"a",".","t","X">>, <<"b">> }

Ok(v) == [ok |-> TRUE, val |-> v]
OSError == [ok |-> FALSE, val |-> 0]

Sizes == {0, LargeFileThreshold, LargeFileThreshold + 1}
SizeOutcomes == {OSError} \cup {Ok(s) : s \in Sizes}

\* rw-rw-r-- and rw-rw-rw-
ModeOutcomes == {OSError, Ok(436), Ok(438)}

\* the guess of mimetypes.guess_type: None is the empty string here
MimeOutcomes == {OSError, Ok(<<>>)}

\* what the three probes return for one file: at most one of them departs
\* from a large file that others may write and whose type is not known
Probes ==
    {[size |-> s, mode |-> Ok(438), mime |-> Ok(<<>>)] : s \in SizeOutcomes}
    \cup {[size |-> Ok(LargeFileThreshold + 1), mode |-> m, mime |-> Ok(<<>>)] :
              m \in ModeOutcomes}
    \cup {[size |-> Ok(LargeFileThreshold + 1), mode |-> Ok(438), mime |-> t] :
              t \in MimeOutcomes}

FileEntries(n) ==
    {[name |-> n, kind |-> "file", size |-> p.size, mode |-> p.mode,
      mime |-> p.mime, readable |-> TRUE, entries |-> <<>>] : p \in Probes}

\* a socket, a fifo, a broken symlink: neither is_file() nor is_dir()
OtherEntry(n) ==
    [name |-> n, kind |-> "other", size |-> OSError, mode |-> OSError,
     mime |-> OSError, readable |-> FALSE, entries |-> <<>>]

\* directories are rwxrwxrwx; one that cannot be listed (permission denied,
\* deleted after it was listed) has readable = FALSE
DirEntry(n, r, l) ==
    [name |-> n, kind |-> "dir", size |-> Ok(0), mode |-> Ok(511),
     mime |-> Ok(<<>>), readable |-> r, entries |-> l]

RECURSIVE Listings(_, _)
RECURSIVE EntriesOfWeight(_, _)

\* the directory entries named n that hold k entries, themselves included
EntriesOfWeight(k, n) ==
    (IF k = 1
     THEN FileEntries(n) \cup {OtherEntry(n), DirEntry(n, FALSE, <<>>)}
     ELSE {})
    \cup {DirEntry(n, TRUE, l) : l \in Listings(k - 1, Names)}

\* the listings of w entries in all, nested ones included, named from names
Listings(w, names) ==
    IF w = 0 THEN {<<>>}
    ELSE UNION {
            UNION { {<<e>> \o rest : e \in EntriesOfWeight(k, n),
                                     rest \in Listings(w - k, names \ {n})}
                    : k \in 1..w }
            : n \in names }

Disks ==
    {DirEntry(RootPath[1], TRUE, l) :
        l \in UNION {Listings(w, Names) : w \in 0..MaxEntries}}
    \cup {DirEntry(RootPath[1], FALSE, <<>>), OtherEntry(RootPath[1])}

RECURSIVE Resolve(_, _)
Resolve(e, rest) ==
    IF rest = <<>> THEN e
    ELSE LET i == CHOOSE i \in 1..Len(e.entries) : e.entries[i].name = Head(rest)
         IN  Resolve(e.entries[i], Tail(rest))

\* what the path names on disk
EntryAt(path) == Resolve(disk, Tail(path))

os_path_isdir(path) == EntryAt(path).kind = "dir"

\* os.scandir: the entries of the directory in listing order, or OSError
os_scandir(path) ==
    IF EntryAt(path).readable THEN Ok(EntryAt(path).entries) ELSE OSError

os_path_getsize(path) == EntryAt(path).size

os_stat_st_mode(path) == EntryAt(path).mode

mimetypes_guess_type(path) == EntryAt(path).mime

\* mode & mask for a mask of one bit
BitAnd(mode, bit) == IF (mode \div bit) % 2 = 1 THEN bit ELSE 0

-----------------------------------------------------------------------------
(* The visitors.  visit_file gets the outcome of its probe of file.path as  *)
(* second argument and returns the visitor with raised = TRUE when an       *)
(* exception leaves the method.                                             *)

Registration == <<"FileSizeVisitor", "PermissionVisitor", "FileCategoryVisitor">>

File(path) == [kind |-> "File", path |-> path]

Directory(path) == [kind |-> "Directory", path |-> path]

Returned(self) == [self |-> self, raised |-> FALSE]

\* the handler raises again
except_OSError_reraise(self) == [self |-> self, raised |-> TRUE]

\* `except OSError as e: logging.error(...)`: the error is logged and dropped
except_OSError(self) == [self |-> self, raised |-> FALSE]

FileSizeVisitor(large_file_threshold) ==
    [file_sizes |-> <<>>, total_size |-> 0, large_files |-> <<>>,
     large_file_threshold |-> large_file_threshold]

\* >= for >
IsLarge_ge(size, large_file_threshold) == size >= large_file_threshold

IsLarge(size, large_file_threshold) == size > large_file_threshold

\* total_size = size for total_size += size
FileSizeVisitor_visit_file_assign(self, file, getsize) ==
    IF getsize.ok
    THEN LET size == getsize.val
         IN  Returned([self EXCEPT
                 !.file_sizes = (file.path :> size) @@ @,
                 !.total_size = size,
                 !.large_files =
                     IF IsLarge(size, self.large_file_threshold)
                     THEN Append(@, <<file.path, size>>)
                     ELSE @])
    ELSE except_OSError(self)

FileSizeVisitor_visit_file(self, file, getsize) ==
    IF getsize.ok
    THEN LET size == getsize.val
         IN  Returned([self EXCEPT
                 !.file_sizes = (file.path :> size) @@ @,
                 !.total_size = @ + size,
                 !.large_files =
                     IF IsLarge(size, self.large_file_threshold)
                     THEN Append(@, <<file.path, size>>)
                     ELSE @])
    ELSE except_OSError(self)

FileSizeVisitor_visit_directory(self, directory) == Returned(self)

FileSizeVisitor_get_result(self) ==
    [total_size |-> self.total_size, large_files |-> self.large_files]

PermissionVisitor == [writable_files |-> <<>>]

\* S_IWGRP for S_IWOTH
OthersCanWrite_group(st_mode) == BitAnd(st_mode, 16) # 0

OthersCanWrite(st_mode) == BitAnd(st_mode, S_IWOTH) # 0

PermissionVisitor_visit_file(self, file, stat) ==
    IF stat.ok
    THEN IF OthersCanWrite(stat.val)
         THEN Returned([self EXCEPT !.writable_files = Append(@, file.path)])
         ELSE Returned(self)
    ELSE except_OSError(self)

PermissionVisitor_visit_directory(self, directory) == Returned(self)

PermissionVisitor_get_result(self) == self.writable_files

FileCategoryVisitor == [file_categories |-> <<>>]

\* every application type taken for an executable
CategoryOf_any_application(path, mime_type) ==
    IF mime_type # <<>>
    THEN IF startswith(mime_type, text) THEN Text
         ELSE IF startswith(mime_type, image) THEN Image
         ELSE IF startswith(mime_type, video) THEN Video
         ELSE IF startswith(mime_type, application) THEN Executable
         ELSE Other
    ELSE LET file_extension == splitext_ext(path)
         IN  IF file_extension # <<>>
             THEN capitalize(Tail(file_extension))
             ELSE Unknown

CategoryOf(path, mime_type) ==
    IF mime_type # <<>>
    THEN IF startswith(mime_type, text) THEN Text
         ELSE IF startswith(mime_type, image) THEN Image
         ELSE IF startswith(mime_type, video) THEN Video
         ELSE IF startswith(mime_type, application) /\ contains(mime_type, executable)
              THEN Executable
         ELSE Other
    ELSE LET file_extension == splitext_ext(path)
         IN  IF file_extension # <<>>
             THEN capitalize(Tail(file_extension))
             ELSE Unknown

FileCategoryVisitor_visit_file(self, file, guess) ==
    IF guess.ok
    THEN LET category == CategoryOf(file.path, guess.val)
             seen == IF category \in DOMAIN self.file_categories
                     THEN self.file_categories
                     ELSE (category :> 0) @@ self.file_categories
         IN  Returned([self EXCEPT
                 !.file_categories = [seen EXCEPT ![category] = @ + 1]])
    ELSE except_OSError(self)

FileCategoryVisitor_visit_directory(self, directory) == Returned(self)

FileCategoryVisitor_get_result(self) == self.file_categories

-----------------------------------------------------------------------------
(* DirectoryAnalyzer *)

root_directory == Directory(RootPath)

\* the frame of _build_directory_structure(directory): the entries of its
\* for loop that are still to come
Frame(directory, todo) == [directory |-> directory, todo |-> todo]

\* the for loops that have run out of entries return
RECURSIVE Unwind(_)
Unwind(frames) ==
    IF frames # <<>> /\ Head(frames).todo = <<>>
    THEN Unwind(Tail(frames))
    ELSE frames

\* insert(0, element) for append(element)
add_content_front(cont, directory, element) ==
    [cont EXCEPT ![directory.path] = <<element>> \o @]

add_content(cont, directory, element) ==
    [cont EXCEPT ![directory.path] = Append(@, element)]

\* the state after `frames` is the call stack of the build and `cont` the tree
Building(cont, frames) ==
    /\ contents' = cont
    /\ buildStack' = Unwind(frames)
    /\ pc' = IF Unwind(frames) = <<>> THEN "built" ELSE "building"
    /\ exc' = exc

\* an exception nobody catches ends the program
Crash(cont, frames, e) ==
    /\ contents' = cont
    /\ buildStack' = frames
    /\ pc' = "crashed"
    /\ exc' = e

\* _build_directory_structure(directory) is entered: os.scandir is called
EnterBuild(cont, frames, directory) ==
    LET listing == os_scandir(directory.path)
    IN  IF listing.ok
        THEN Building(cont, <<Frame(directory, listing.val)>> \o frames)
        ELSE Crash(cont, frames, "OSError")

\* main() calls DirectoryAnalyzer(directory_to_analyze)
Construct ==
    /\ pc = "start"
    /\ IF ~os_path_isdir(RootPath)
       THEN /\ pc' = "exit1"
            /\ exc' = "ValueError"
            /\ UNCHANGED <<contents, buildStack>>
       ELSE EnterBuild((RootPath :> <<>>), <<>>, root_directory)
    /\ UNCHANGED <<disk, run, sizeV, permV, catV, vi, stack, results, calls,
                   prev, classified>>

is_file(entry) == entry.kind = "file"

\* else for elif entry.is_dir()
is_dir_else(entry) == entry.kind # "file"

is_dir(entry) == entry.kind = "dir"

\* one iteration of the for loop of _build_directory_structure
BuildStep ==
    /\ pc = "building"
    /\ LET frame == Head(buildStack)
           directory == frame.directory
           entry == Head(frame.todo)
           path == Append(directory.path, entry.name)
           rest == <<Frame(directory, Tail(frame.todo))>> \o Tail(buildStack)
       IN  IF is_file(entry)
           THEN Building(add_content(contents, directory, File(path)), rest)
           ELSE IF is_dir(entry)
           THEN EnterBuild(
                    add_content((path :> <<>>) @@ contents, directory, Directory(path)),
                    rest, Directory(path))
           ELSE Building(contents, rest)
    /\ UNCHANGED <<disk, run, sizeV, permV, catV, vi, stack, results, calls,
                   prev, classified>>

\* the visitor of the previous run used again
main_size_visitor_reused == sizeV

\* size_visitor = FileSizeVisitor(large_file_threshold=50000000) in main()
main_size_visitor == FileSizeVisitor(LargeFileThreshold)

\* main() creates the three visitors and calls analyzer.analyze(visitors)
AnalyzeBegin ==
    /\ pc = "built"
    /\ sizeV' = main_size_visitor
    /\ permV' = PermissionVisitor
    /\ catV' = FileCategoryVisitor
    /\ results' = <<>>
    /\ vi' = 1
    /\ stack' = <<root_directory>>
    /\ calls' = <<>>
    /\ pc' = "walking"
    /\ UNCHANGED <<disk, run, exc, contents, buildStack, prev, classified>>

\* the contents accepted after whatever follows the directory
Directory_accept_after(pending, element) == pending \o contents[element.path]

\* Directory.accept after visit_directory: the contents are accepted in
\* order, before whatever follows the directory
Directory_accept(pending, element) == contents[element.path] \o pending

Call(v, op, path) == [visitor |-> v, op |-> op, path |-> path]

\* the visitor after element.accept(visitor) has made its visit call
Visited(element) ==
    LET name == Registration[vi]
        path == element.path
    IN  IF element.kind = "File"
        THEN IF name = "FileSizeVisitor"
             THEN FileSizeVisitor_visit_file(sizeV, element, os_path_getsize(path))
             ELSE IF name = "PermissionVisitor"
             THEN PermissionVisitor_visit_file(permV, element, os_stat_st_mode(path))
             ELSE FileCategoryVisitor_visit_file(catV, element, mimetypes_guess_type(path))
        ELSE IF name = "FileSizeVisitor"
             THEN FileSizeVisitor_visit_directory(sizeV, element)
             ELSE IF name = "PermissionVisitor"
             THEN PermissionVisitor_visit_directory(permV, element)
             ELSE FileCategoryVisitor_visit_directory(catV, element)

\* element.accept(visitor) for the next element of the walk
Accept ==
    /\ pc = "walking"
    /\ stack # <<>>
    /\ LET element == Head(stack)
           name == Registration[vi]
           r == Visited(element)
       IN  /\ calls' = Append(calls,
                   Call(vi, IF element.kind = "File" THEN "visit_file"
                            ELSE "visit_directory", element.path))
           /\ sizeV' = IF name = "FileSizeVisitor" THEN r.self ELSE sizeV
           /\ permV' = IF name = "PermissionVisitor" THEN r.self ELSE permV
           /\ catV' = IF name = "FileCategoryVisitor" THEN r.self ELSE catV
           /\ IF r.raised
              THEN /\ pc' = "crashed"
                   /\ exc' = "OSError"
                   /\ stack' = stack
              ELSE /\ pc' = pc
                   /\ exc' = exc
                   /\ stack' = IF element.kind = "Directory"
                               THEN Directory_accept(Tail(stack), element)
                               ELSE Tail(stack)
    /\ UNCHANGED <<disk, run, contents, buildStack, vi, results, prev, classified>>

get_result(name) ==
    IF name = "FileSizeVisitor" THEN FileSizeVisitor_get_result(sizeV)
    ELSE IF name = "PermissionVisitor" THEN PermissionVisitor_get_result(permV)
    ELSE FileCategoryVisitor_get_result(catV)

\* root_directory.accept(visitor) has returned: analyze stores the result and
\* goes on with the next visitor, or returns to main(), which logs the results
CollectResult ==
    /\ pc = "walking"
    /\ stack = <<>>
    /\ results' = (Registration[vi] :> get_result(Registration[vi])) @@ results
    /\ IF vi < Len(Registration)
       THEN /\ vi' = vi + 1
            /\ stack' = <<root_directory>>
            /\ pc' = pc
       ELSE /\ vi' = vi
            /\ stack' = stack
            /\ pc' = "done"
    /\ UNCHANGED <<disk, run, exc, contents, buildStack, sizeV, permV, catV,
                   calls, prev, classified>>

\* the program is run a second time on the same disk
Rerun ==
    /\ pc = "done"
    /\ run = 1
    /\ run' = 2
    /\ prev' = results
    /\ pc' = "start"
    /\ contents' = <<>>
    /\ buildStack' = <<>>
    /\ results' = <<>>
    /\ calls' = <<>>
    /\ stack' = <<>>
    /\ vi' = 0
    /\ UNCHANGED <<disk, exc, sizeV, permV, catV, classified>>

Init ==
    /\ disk \in Disks
    /\ pc = "start"
    /\ run = 1
    /\ exc = "none"
    /\ contents = <<>>
    /\ buildStack = <<>>
    /\ sizeV = FileSizeVisitor(LargeFileThreshold)
    /\ permV = PermissionVisitor
    /\ catV = FileCategoryVisitor
    /\ vi = 0
    /\ stack = <<>>
    /\ results = <<>>
    /\ calls = <<>>
    /\ prev = <<>>
    /\ classified = 0

Next ==
    \/ Construct
    \/ BuildStep
    \/ AnalyzeBegin
    \/ Accept
    \/ CollectResult
    \/ Rerun

Spec == Init /\ [][Next]_vars

-----------------------------------------------------------------------------
(* One FileCategoryVisitor taken alone: visit_file is called with any file  *)
(* name and any outcome of the type guess, as the unit tests do.            *)

UnitNames ==
    { <<"a",".","t","X">>, <<"b">>, <<".","c">>, <<"d",".">>,
      <<"e",".","t","e","x","t">> }

text_plain       == text \o <<"/","p","l","a","i","n">>
image_png        == image \o <<"/","p","n","g">>
video_mp4        == video \o <<"/","m","p","4">>
application_exec == application \o <<"/","x","-">> \o executable
application_pdf  == application \o <<"/","p","d","f">>
audio_mpeg       == audio \o <<"/","m","p","e","g">>

UnitGuesses ==
    {OSError, Ok(<<>>), Ok(text_plain), Ok(image_png), Ok(video_mp4),
     Ok(application_exec), Ok(application_pdf), Ok(audio_mpeg)}

InitCategory ==
    /\ disk = DirEntry(RootPath[1], TRUE, <<>>)
    /\ pc = "unit"
    /\ run = 1
    /\ exc = "none"
    /\ contents = <<>>
    /\ buildStack = <<>>
    /\ sizeV = FileSizeVisitor(LargeFileThreshold)
    /\ permV = PermissionVisitor
    /\ catV = FileCategoryVisitor
    /\ vi = 0
    /\ stack = <<>>
    /\ results = <<>>
    /\ calls = <<>>
    /\ prev = <<>>
    /\ classified = 0

\* visitor.visit_file(file) with mimetypes.guess_type patched to `guess`
UnitVisitFile ==
    /\ pc = "unit"
    /\ Len(calls) < MaxCalls
    /\ \E name \in UnitNames, guess \in UnitGuesses :
         LET file == File(Append(RootPath, name))
             r == FileCategoryVisitor_visit_file(catV, file, guess)
         IN  /\ catV' = r.self
             /\ calls' = Append(calls, [path |-> file.path, guess |-> guess])
             /\ classified' = IF guess.ok THEN classified + 1 ELSE classified
             /\ exc' = IF r.raised THEN "OSError" ELSE exc
    /\ UNCHANGED <<disk, pc, run, contents, buildStack, sizeV, permV, vi,
                   stack, results, prev>>

NextCategory == UnitVisitFile

SpecCategory == InitCategory /\ [][NextCategory]_vars

-----------------------------------------------------------------------------
(* Vocabulary of the properties *)

IsPrefix(s, t) == Len(s) <= Len(t) /\ SubSeq(t, 1, Len(s)) = s

IsProperPrefix(s, t) == Len(s) < Len(t) /\ SubSeq(t, 1, Len(s)) = s

RECURSIVE TreeWalk(_)
RECURSIVE TreeWalkAll(_)

\* the nodes of the built tree below and including node, in pre-order
TreeWalk(node) ==
    IF node.kind = "File" THEN <<node>>
    ELSE <<node>> \o TreeWalkAll(contents[node.path])

TreeWalkAll(elements) ==
    IF elements = <<>> THEN <<>>
    ELSE TreeWalk(Head(elements)) \o TreeWalkAll(Tail(elements))

TreeNodes == {TreeWalk(root_directory)[i] : i \in 1..Len(TreeWalk(root_directory))}

TreeFiles == {n \in TreeNodes : n.kind = "File"}

VisitOp(node) == IF node.kind = "File" THEN "visit_file" ELSE "visit_directory"

\* the calls one visitor receives in one pre-order walk of the built tree
WalkOf(v) ==
    LET w == TreeWalk(root_directory)
    IN  [i \in 1..Len(w) |-> Call(v, VisitOp(w[i]), w[i].path)]

\* the calls of this run received by visitor v, in order
CallsOf(v) == SelectSeq(calls, LAMBDA c : c.visitor = v)

\* accept(visitor) of the root has returned for visitor v
WalkFinished(v) ==
    \/ pc = "done"
    \/ pc = "walking" /\ (vi > v \/ (vi = v /\ stack = <<>>))

Analyzing == pc \in {"walking", "done"}

\* what the listing of the directory holds as nodes: its files and
\* subdirectories, in listing order
Mirror(path) ==
    LET listed == SelectSeq(EntryAt(path).entries,
                            LAMBDA e : e.kind \in {"file", "dir"})
    IN  [i \in 1..Len(listed) |->
            IF listed[i].kind = "file"
            THEN File(Append(path, listed[i].name))
            ELSE Directory(Append(path, listed[i].name))]

RECURSIVE Populated(_)
\* the Directory node and all Directory nodes below it are fully populated
Populated(path) ==
    /\ path \in DOMAIN contents
    /\ contents[path] = Mirror(path)
    /\ \A i \in 1..Len(contents[path]) :
          contents[path][i].kind = "Directory" => Populated(contents[path][i].path)

RECURSIVE DiskDirs(_, _)
\* the paths of the directories on disk at and below path
DiskDirs(e, path) ==
    {path} \cup UNION {DiskDirs(e.entries[i], Append(path, e.entries[i].name)) :
                        i \in {j \in 1..Len(e.entries) : e.entries[j].kind = "dir"}}

AnyUnreadable ==
    \E d \in DiskDirs(disk, RootPath) : ~EntryAt(d).readable

RECURSIVE SumSizes(_)
\* the sizes the probe returned over a sequence of calls, 0 for a failure
SumSizes(cs) ==
    IF cs = <<>> THEN 0
    ELSE (IF cs[1].op = "visit_file" /\ os_path_getsize(cs[1].path).ok
          THEN os_path_getsize(cs[1].path).val ELSE 0) + SumSizes(Tail(cs))

Occurrences(seq, x) == Cardinality({i \in 1..Len(seq) : seq[i] = x})

\* position of the call for path among the calls of visitor v
CallIndex(v, path) == CHOOSE i \in 1..Len(CallsOf(v)) : CallsOf(v)[i].path = path

-----------------------------------------------------------------------------
(* C1 *)

RECURSIVE SinglePass(_)
\* every node handed to every visitor before the walk moves on
SinglePass(nodes) ==
    IF nodes = <<>> THEN <<>>
    ELSE [v \in 1..Len(Registration) |->
             Call(v, VisitOp(Head(nodes)), Head(nodes).path)]
         \o SinglePass(Tail(nodes))

-----------------------------------------------------------------------------
(* C2 *)

\* C2: the calls every visitor receives are in depth-first pre-order: a
\* directory before its descendants, siblings with their subtrees in listing
\* order, and every node of the tree exactly once
C2_PreOrderPerVisitor ==
    Analyzing =>
        \A v \in 1..Len(Registration) :
            LET cs == CallsOf(v)
            IN  /\ \A i, j \in 1..Len(cs) :
                      /\ i # j => cs[i].path # cs[j].path
                      /\ IsProperPrefix(cs[i].path, cs[j].path) => i < j
                      /\ \A k \in 2..Len(cs[i].path) :
                            /\ k <= Len(cs[j].path)
                            /\ SubSeq(cs[i].path, 1, k - 1) = SubSeq(cs[j].path, 1, k - 1)
                            /\ cs[i].path[k] # cs[j].path[k]
                            => LET listing == EntryAt(SubSeq(cs[i].path, 1, k - 1)).entries
                                   at(n) == CHOOSE x \in 1..Len(listing) : listing[x].name = n
                               IN  (at(cs[i].path[k]) < at(cs[j].path[k])) <=> (i < j)
                /\ \A i \in 1..Len(cs) :
                      \E n \in TreeNodes : n.path = cs[i].path /\ cs[i].op = VisitOp(n)
                /\ WalkFinished(v) =>
                      \A n \in TreeNodes : \E i \in 1..Len(cs) : cs[i].path = n.path

C2_Witness ==
    /\ pc = "done"
    /\ Len(contents[RootPath]) = 2
    /\ contents[RootPath][1].kind = "Directory"
    /\ contents[contents[RootPath][1].path] # <<>>
    /\ contents[RootPath][2].kind = "File"
    /\ Len(CallsOf(3)) = 4

-----------------------------------------------------------------------------
(* C3 *)

\* C3: once the analyzer is constructed the tree mirrors the listings: every
\* Directory node holds one node per listed file or subdirectory, in listing
\* order, and nothing else; while the tree is built a subdirectory is fully
\* populated before the next sibling is appended
C3_TreeMirrorsListings ==
    /\ pc \in {"built", "walking", "done"} =>
          /\ DOMAIN contents = DiskDirs(disk, RootPath)
          /\ Populated(RootPath)
    /\ pc \in {"building", "crashed"} =>
          \A d \in DOMAIN contents :
              /\ IsPrefix(contents[d], Mirror(d))
              /\ \A i \in 1..(Len(contents[d]) - 1) :
                    contents[d][i].kind = "Directory" => Populated(contents[d][i].path)

C3_Witness ==
    /\ pc = "built"
    /\ \E i \in 1..Len(disk.entries) : disk.entries[i].kind = "other"
    /\ \E d \in DOMAIN contents :
          /\ d # RootPath
          /\ Len(contents[d]) = 1
          /\ contents[d][1].kind = "File"
    /\ Len(contents[RootPath]) = 1

-----------------------------------------------------------------------------
(* C4 *)

\* C4: after the walk of the FileSizeVisitor, large_files of its result holds
\* (path, size) exactly once for every file whose size is above the
\* threshold, nothing for a file of a size up to the threshold or of unknown
\* size, and it is in visit order
C4_LargeFiles ==
    "FileSizeVisitor" \in DOMAIN results =>
        LET large == results["FileSizeVisitor"].large_files
            T == sizeV.large_file_threshold
        IN  /\ \A f \in TreeFiles :
                  LET size == os_path_getsize(f.path)
                  IN  IF size.ok /\ size.val > T
                      THEN /\ Occurrences(large, <<f.path, size.val>>) = 1
                           /\ Cardinality({i \in 1..Len(large) : large[i][1] = f.path}) = 1
                      ELSE \A i \in 1..Len(large) : large[i][1] # f.path
            /\ \A i \in 1..Len(large) : File(large[i][1]) \in TreeFiles
            /\ \A i, j \in 1..Len(large) :
                  i < j => CallIndex(1, large[i][1]) < CallIndex(1, large[j][1])

C4_Witness ==
    /\ "FileSizeVisitor" \in DOMAIN results
    /\ Len(results["FileSizeVisitor"].large_files) = 1
    /\ \E f \in TreeFiles : os_path_getsize(f.path) = Ok(LargeFileThreshold)
    /\ \E f \in TreeFiles : os_path_getsize(f.path) = Ok(LargeFileThreshold + 1)

\* a file of 0 bytes is visited and is not in large_files
C4_WitnessEmptyFile ==
    /\ "FileSizeVisitor" \in DOMAIN results
    /\ \E f \in TreeFiles : os_path_getsize(f.path) = Ok(0)

-----------------------------------------------------------------------------
(* C5 *)

\* C5: at any point of the walk total_size is the sum of the sizes the probe
\* returned for the files visited so far; a file whose probe raised adds 0,
\* is not in large_files, and the files after it are still counted
C5_TotalSize ==
    Analyzing =>
        /\ sizeV.total_size = SumSizes(CallsOf(1))
        /\ \A i \in 1..Len(sizeV.large_files) :
              os_path_getsize(sizeV.large_files[i][1]).ok
        /\ DOMAIN sizeV.file_sizes =
              {c.path : c \in {CallsOf(1)[i] : i \in {j \in 1..Len(CallsOf(1)) :
                    /\ CallsOf(1)[j].op = "visit_file"
                    /\ os_path_getsize(CallsOf(1)[j].path).ok}}}
        /\ WalkFinished(1) =>
              \A f \in TreeFiles :
                  os_path_getsize(f.path).ok => f.path \in DOMAIN sizeV.file_sizes

C5_Witness ==
    /\ pc = "done"
    /\ Len(contents[RootPath]) = 2
    /\ contents[RootPath][1].kind = "File"
    /\ contents[RootPath][2].kind = "File"
    /\ ~os_path_getsize(contents[RootPath][1].path).ok
    /\ os_path_getsize(contents[RootPath][2].path) = Ok(LargeFileThreshold + 1)
    /\ sizeV.total_size = LargeFileThreshold + 1

\* two files are summed
C5_WitnessSum ==
    /\ pc = "done"
    /\ sizeV.total_size = 2 * LargeFileThreshold + 1

-----------------------------------------------------------------------------
(* C6 *)

\* rwx digits of the mode for others that grant write: -w-, -wx, rw-, rwx
WorldWritable(mode) == mode.ok /\ (mode.val % 8) \in {2, 3, 6, 7}

\* C6: after the walk of the PermissionVisitor its result holds the path of
\* a file exactly once if others may write the file, and never the path of a
\* file they may not write or whose mode could not be read, nor a directory
C6_WritableFiles ==
    "PermissionVisitor" \in DOMAIN results =>
        LET writable == results["PermissionVisitor"]
        IN  /\ \A f \in TreeFiles :
                  Occurrences(writable, f.path) =
                      IF WorldWritable(os_stat_st_mode(f.path)) THEN 1 ELSE 0
            /\ \A i \in 1..Len(writable) : File(writable[i]) \in TreeFiles

C6_Witness ==
    /\ "PermissionVisitor" \in DOMAIN results
    /\ Len(results["PermissionVisitor"]) = 1
    /\ \E f \in TreeFiles : os_stat_st_mode(f.path) = Ok(436)
    /\ \E d \in DOMAIN contents : d # RootPath /\ WorldWritable(os_stat_st_mode(d))

\* a file whose mode cannot be read is visited and not reported
C6_WitnessUnreadableMode ==
    /\ "PermissionVisitor" \in DOMAIN results
    /\ Len(results["PermissionVisitor"]) = 1
    /\ \E f \in TreeFiles : ~os_stat_st_mode(f.path).ok

-----------------------------------------------------------------------------
(* C7 *)

\* the bucket the stated precedence gives each guess and each file name
BucketOfGuess(mime_type) ==
    CASE mime_type = text_plain -> Text
      [] mime_type = image_png -> Image
      [] mime_type = video_mp4 -> Video
      [] mime_type = application_exec -> Executable
      [] mime_type = application_pdf -> Other
      [] mime_type = audio_mpeg -> Other

BucketOfName(name) ==
    CASE name = <<"a",".","t","X">> -> <<"T","x">>
      [] name = <<"b">> -> Unknown
      [] name = <<".","c">> -> Unknown
      [] name = <<"d",".">> -> <<>>
      [] name = <<"e",".","t","e","x","t">> -> Text

Bucket(call) ==
    IF call.guess.val # <<>> THEN BucketOfGuess(call.guess.val)
    ELSE BucketOfName(call.path[Len(call.path)])

RECURSIVE SumCounts(_)
SumCounts(f) ==
    IF DOMAIN f = {} THEN 0
    ELSE LET c == CHOOSE c \in DOMAIN f : TRUE
         IN  f[c] + SumCounts([d \in DOMAIN f \ {c} |-> f[d]])

\* C7: after any sequence of visit_file calls every file whose classification
\* succeeded is counted once, in the bucket the precedence gives it, so the
\* counts add up to the number of files classified
C7_CategoryTally ==
    pc = "unit" =>
        LET counts == catV.file_categories
            classifiedAs(c) == {i \in 1..Len(calls) : calls[i].guess.ok /\ Bucket(calls[i]) = c}
        IN  /\ \A i \in 1..Len(calls) :
                  calls[i].guess.ok => Bucket(calls[i]) \in DOMAIN counts
            /\ \A c \in DOMAIN counts :
                  /\ counts[c] = Cardinality(classifiedAs(c))
                  /\ counts[c] >= 1
            /\ SumCounts(counts) = classified
            /\ exc = "none"

C7_Witness ==
    /\ pc = "unit"
    /\ Len(calls) = 3
    /\ classified = 2
    /\ DOMAIN catV.file_categories = {Executable, Unknown}

\* an extension that spells a type falls in the bucket of the type
C7_WitnessSharedBucket ==
    /\ pc = "unit"
    /\ calls = <<[path |-> Append(RootPath, <<"e",".","t","e","x","t">>), guess |-> Ok(<<>>)],
                 [path |-> Append(RootPath, <<"b">>), guess |-> Ok(text_plain)]>>
    /\ catV.file_categories = (Text :> 2)

-----------------------------------------------------------------------------
(* C8 *)

\* C8: the second run of the program over the unmodified disk returns the
\* results of the first run
C8_Idempotent ==
    pc = "done" /\ run = 2 => results = prev

C8_Witness ==
    /\ pc = "done"
    /\ run = 2
    /\ DOMAIN results = {Registration[i] : i \in 1..Len(Registration)}
    /\ results["FileSizeVisitor"].total_size > 0
    /\ results["FileSizeVisitor"].large_files # <<>>
    /\ results["PermissionVisitor"] # <<>>
    /\ DOMAIN results["FileCategoryVisitor"] # {}

-----------------------------------------------------------------------------
(* C9 *)

\* C9: a probe that raises an OS error for a file never leaves analyze: the
\* walks go on over the whole tree and analyze returns the three results;
\* the file is left out of the analysis whose probe failed only
C9_ProbeFailureContained ==
    /\ pc = "crashed" => vi = 0
    /\ pc = "done" =>
          /\ DOMAIN results = {Registration[i] : i \in 1..Len(Registration)}
          /\ \A v \in 1..Len(Registration) :
                {CallsOf(v)[i].path : i \in 1..Len(CallsOf(v))} = {n.path : n \in TreeNodes}
          /\ \A f \in TreeFiles :
                /\ f.path \in DOMAIN sizeV.file_sizes <=> os_path_getsize(f.path).ok
                /\ (\E i \in 1..Len(permV.writable_files) : permV.writable_files[i] = f.path)
                      <=> WorldWritable(os_stat_st_mode(f.path))
          /\ SumCounts(catV.file_categories) =
                Cardinality({f \in TreeFiles : mimetypes_guess_type(f.path).ok})

C9_Witness ==
    /\ pc = "done"
    /\ Len(contents[RootPath]) = 2
    /\ contents[RootPath][1].kind = "File"
    /\ contents[RootPath][2].kind = "File"
    /\ ~os_path_getsize(contents[RootPath][1].path).ok
    /\ os_stat_st_mode(contents[RootPath][1].path) = Ok(438)
    /\ mimetypes_guess_type(contents[RootPath][1].path).ok
    /\ os_path_getsize(contents[RootPath][2].path).ok
    /\ ~os_stat_st_mode(contents[RootPath][2].path).ok
    /\ mimetypes_guess_type(contents[RootPath][2].path).ok

-----------------------------------------------------------------------------
(* C10 *)

\* C10 as stated: a subdirectory that cannot be listed does not make the
\* construction fail; only a root that is no directory does
C10_UnreadableSubdirectoryRecovered ==
    os_path_isdir(RootPath) /\ disk.readable => pc # "crashed"

====
